---- MODULE Spec2Model ----
(***************************************************************************)
(* A model of update_conventions.py: the cell parser, the row and document *)
(* compiler (_convention_csv2dict), the batch compile                      *)
(* (_compile_conventions) and the download loop of update_conventions.     *)
(*                                                                         *)
(* Python str values are TLA+ strings; Len, SubSeq and \o are the only     *)
(* operations used on them.  Every other Python value is a record of one   *)
(* shape, [t, n, s, l], whose field t is the Python type name.             *)
(***************************************************************************)
EXTENDS Integers, Sequences, FiniteSets, TLC

VARIABLES
    pc,           \* position of the modelled call
    cell,         \* SpecCell: the raw cell text
    parsed,       \* SpecCell: the value the cell parser left in line[idc]
    lines,        \* Spec: fid.readlines() of the csv file
    idl,          \* Spec: 0-based index of the line the loop is at
    fields,       \* Spec: the header's cells after the first
    line,         \* Spec: the list `line` as the last iteration left it
    convention,   \* Spec: the dict under construction
    result,       \* Spec: what _convention_csv2dict returned or raised
    source,       \* SpecBatch, SpecSync: <conventions_path>/source, name -> bytes
    csv_files,    \* SpecBatch: the glob result, in the order glob gave it
    json,         \* SpecBatch: <conventions_path>/json, name -> dumped record
    raised,       \* SpecBatch: the exception that left _compile_conventions
    idx,          \* SpecBatch, SpecSync: index of the next loop iteration
    data,         \* SpecSync: the normalised download of the last iteration
    requested,    \* SpecSync: names passed to requests.get(url_raw + ...)
    opened_wb,    \* SpecSync: names opened with mode "wb"
    printed,      \* SpecSync: what print() wrote, in order
    updated       \* SpecSync: the local variable `updated`

vars == <<pc, cell, parsed, lines, idl, fields, line, convention, result, source, csv_files, json, raised,
          idx, data, requested, opened_wb, printed, updated>>

-----------------------------------------------------------------------------
(* Python str methods *)

At(s, i) == SubSeq(s, i, i)

\* the characters str.strip() removes that can occur in a line of text
Whitespace == {" ", "\t", "\n", "\r"}

RECURSIVE lstrip(_)
lstrip(s) ==
    IF Len(s) > 0 /\ At(s, 1) \in Whitespace
    THEN lstrip(SubSeq(s, 2, Len(s)))
    ELSE s

RECURSIVE rstrip(_)
rstrip(s) ==
    IF Len(s) > 0 /\ At(s, Len(s)) \in Whitespace
    THEN rstrip(SubSeq(s, 1, Len(s) - 1))
    ELSE s

strip(s) == rstrip(lstrip(s))

startswith(s, prefix) ==
    Len(prefix) <= Len(s) /\ SubSeq(s, 1, Len(prefix)) = prefix

\* sub in s
contains(s, sub) ==
    \E i \in 1..(Len(s) - Len(sub) + 1) : SubSeq(s, i, i + Len(sub) - 1) = sub

\* position of the first occurrence of sub in s at or after i, 0 if none
RECURSIVE FindFrom(_, _, _)
FindFrom(s, sub, i) ==
    IF i + Len(sub) - 1 > Len(s) THEN 0
    ELSE IF SubSeq(s, i, i + Len(sub) - 1) = sub THEN i
    ELSE FindFrom(s, sub, i + 1)

\* position of the first occurrence of sub in s, 0 if there is none
find(s, sub) == FindFrom(s, sub, 1)

\* s.replace(old, new), old not empty: left to right, not overlapping
RECURSIVE replace(_, _, _)
replace(s, old, new) ==
    LET i == find(s, old) IN
    IF i = 0
    THEN s
    ELSE SubSeq(s, 1, i - 1) \o new
            \o replace(SubSeq(s, i + Len(old), Len(s)), old, new)

\* s.split(sep), sep not empty: always at least one element
RECURSIVE split(_, _)
split(s, sep) ==
    LET i == find(s, sep) IN
    IF i = 0
    THEN <<s>>
    ELSE <<SubSeq(s, 1, i - 1)>> \o split(SubSeq(s, i + Len(sep), Len(s)), sep)

\* sep.join(parts)
RECURSIVE join(_, _)
join(parts, sep) ==
    IF Len(parts) = 0 THEN ""
    ELSE IF Len(parts) = 1 THEN parts[1]
    ELSE parts[1] \o sep \o join(Tail(parts), sep)

-----------------------------------------------------------------------------
(* Python values *)

PyNone == [t |-> "NoneType", n |-> 0, s |-> "", l |-> <<>>]
PyStr(s) == [t |-> "str", n |-> 0, s |-> s, l |-> <<>>]
PyInt(n) == [t |-> "int", n |-> n, s |-> "", l |-> <<>>]
\* a float n.s: n the integer part, s the fraction's digits without
\* trailing zeros
PyFloat(n, s) == [t |-> "float", n |-> n, s |-> s, l |-> <<>>]
PyList(l) == [t |-> "list", n |-> 0, s |-> "", l |-> l]
\* a dict, l its (key, value) pairs in insertion order
PyDict(l) == [t |-> "dict", n |-> 0, s |-> "", l |-> l]
\* an exception of class s raised while the value was computed
PyRaise(s) == [t |-> "raise", n |-> 0, s |-> s, l |-> <<>>]

isinstance(v, type) == v.t = type

Digit == {"0", "1", "2", "3", "4", "5", "6", "7", "8", "9"}

DigitValue(c) ==
    CASE c = "0" -> 0 [] c = "1" -> 1 [] c = "2" -> 2 [] c = "3" -> 3
      [] c = "4" -> 4 [] c = "5" -> 5 [] c = "6" -> 6 [] c = "7" -> 7
      [] c = "8" -> 8 [] c = "9" -> 9

DigitChar(d) == At("0123456789", d + 1)

AllDigits(s) == \A i \in 1..Len(s) : At(s, i) \in Digit

RECURSIVE DigitsValue(_)
DigitsValue(s) ==
    IF Len(s) = 0 THEN 0
    ELSE 10 * DigitsValue(SubSeq(s, 1, Len(s) - 1)) + DigitValue(At(s, Len(s)))

RECURSIVE StripZeros(_)
StripZeros(s) ==
    IF Len(s) > 0 /\ At(s, Len(s)) = "0"
    THEN StripZeros(SubSeq(s, 1, Len(s) - 1))
    ELSE s

\* int(s) for a text without sign, underscore or surrounding blanks (none
\* of the model's cells has one): decimal digits, or ValueError
int(s) ==
    IF Len(s) > 0 /\ AllDigits(s) THEN PyInt(DigitsValue(s)) ELSE PyRaise("ValueError")

\* float(s) for a text that holds a '.', without sign or exponent: digits
\* around one point, at least one digit, or ValueError
FloatAt(s, p) ==
    IF /\ p > 0 /\ Len(s) > 1
       /\ AllDigits(SubSeq(s, 1, p - 1)) /\ AllDigits(SubSeq(s, p + 1, Len(s)))
    THEN PyFloat(DigitsValue(SubSeq(s, 1, p - 1)), StripZeros(SubSeq(s, p + 1, Len(s))))
    ELSE PyRaise("ValueError")

float(s) == FloatAt(s, find(s, "."))

\* str(n) of a non-negative int
RECURSIVE IntStr(_)
IntStr(n) ==
    IF n < 10 THEN DigitChar(n) ELSE IntStr(n \div 10) \o DigitChar(n % 10)

\* float(n) if '.' in n else int(n)
Number(n) == IF contains(n, ".") THEN float(n) ELSE int(n)

-----------------------------------------------------------------------------
(* The cell parser: the body of `for idc, cell in enumerate(line)` *)

\* a list comprehension: the list, or the exception one element raised
Comprehension(elements) ==
    IF \E i \in 1..Len(elements) : isinstance(elements[i], "raise")
    THEN PyRaise("ValueError")
    ELSE PyList(elements)

\* lines 239-240, 251-253: every piece a number
Numbers(numbers) ==
    Comprehension([i \in 1..Len(numbers) |-> Number(numbers[i])])

\* lines 235-240, 248-253, one row of an array cell: strip, blanks to
\* commas, blanks removed, split on commas, every piece a number
ArrayRow(cc) ==
    Numbers(split(replace(replace(strip(cc), " ", ","), " ", ""), ","))

\* lines 221-224: the number, or on ValueError the text
NumberOrText(v, c) == IF isinstance(v, "raise") THEN PyStr(c) ELSE v

\* lines 219-227: a cell that does not start with '['
ScalarCell(c) == NumberOrText(Number(c), c)

\* lines 244-255: a list of lists, one per segment
Nested(segments) ==
    Comprehension([i \in 1..Len(segments) |-> ArrayRow(segments[i])])

\* lines 233-255: the text between the brackets
ArrayText(inner) ==
    IF ~contains(inner, ";") THEN ArrayRow(inner) ELSE Nested(split(inner, ";"))

\* lines 229-258: a cell that starts with '[', cell[1:-1] parsed
ArrayCell(c) == ArrayText(SubSeq(c, 2, Len(c) - 1))

\* lines 219-258: a cell that is not empty, stripped
StrippedCell(c) ==
    IF c = "" THEN PyRaise("IndexError")
    ELSE IF At(c, 1) # "[" THEN ScalarCell(c)
    ELSE ArrayCell(c)

\* lines 213-258: the value written to line[idc], or the exception raised
ParseCell(raw) ==
    IF replace(raw, " ", "") = "" THEN PyNone ELSE StrippedCell(strip(raw))

-----------------------------------------------------------------------------
(* Python dict: the (key, value) pairs in insertion order *)

Keys(d) == [i \in 1..Len(d) |-> d[i].key]

HasKey(d, k) == \E i \in 1..Len(d) : d[i].key = k

Get(d, k) == d[CHOOSE i \in 1..Len(d) : d[i].key = k].value

\* d[k] = v: a key already in d keeps its place, a new key goes last
SetItem(d, k, v) ==
    IF HasKey(d, k)
    THEN [i \in 1..Len(d) |-> IF d[i].key = k THEN [key |-> k, value |-> v] ELSE d[i]]
    ELSE Append(d, [key |-> k, value |-> v])

\* d without key k (the dict after d.pop(k))
Pop(d, k) == SelectSeq(d, LAMBDA e : e.key # k)

\* d[k] = d.pop(k)
MoveToEnd(d, k) == SetItem(Pop(d, k), k, Get(d, k))

-----------------------------------------------------------------------------
(* The row compiler: lines 260-288 of _convention_csv2dict *)

Upper == "ABCDEFGHIJKLMNOPQRSTUVWXYZ"
Lower == "abcdefghijklmnopqrstuvwxyz"

LowerChar(c) == IF contains(Upper, c) THEN At(Lower, find(Upper, c)) ELSE c

RECURSIVE lower(_)
lower(s) ==
    IF Len(s) = 0 THEN "" ELSE LowerChar(At(s, 1)) \o lower(SubSeq(s, 2, Len(s)))

\* str(float(v)) of an int or a float small enough that repr uses no exponent
FloatStr(v) ==
    IF isinstance(v, "int") THEN IntStr(v.n) \o ".0"
    ELSE IntStr(v.n) \o "." \o (IF v.s = "" THEN "0" ELSE v.s)

SOS == PyList(<<PyInt(0), PyInt(0), PyInt(0), PyInt(1), PyInt(0), PyInt(0)>>)

\* the three defaults that are rewritten for json, lines 272-280
Legacy(default) ==
    IF default = PyStr("permute([0 0 0 1 0 0; 0 0 0 1 0 0], [3 1 2]);")
    THEN PyList(<<PyList(<<SOS, SOS>>)>>)
    ELSE IF default = PyStr("permute([0 0 0 1 0 0], [3 1 2]);")
    THEN PyList(<<PyList(<<SOS>>)>>)
    ELSE IF default = PyStr("{''}")
    THEN PyList(<<PyStr("")>>)
    ELSE default

\* AddComment with the length of a line that has its comment
AddCommentAtSix(cells) == IF Len(cells) = 6 THEN Append(cells, PyStr("")) ELSE cells

\* lines 265-267: add blank comment if it does not exist
AddComment(cells) == IF Len(cells) = 5 THEN Append(cells, PyStr("")) ELSE cells

\* EmptyDefault without the conversion
EmptyDefaultKept(default) == default

\* lines 268-270: convert empty defaults from None to ""
EmptyDefault(default) == IF default = PyNone THEN PyStr("") ELSE default

\* VersionDefault that converts only the entry named Version
VersionDefaultExactName(name, default) ==
    IF name = "Version" /\ ~isinstance(default, "str")
    THEN IF default.t \in {"int", "float"}
         THEN PyStr(FloatStr(default))
         ELSE PyRaise("TypeError")
    ELSE default

\* lines 281-283: convert versions to strings; name is a str here
VersionDefault(name, default) ==
    IF contains(name, "Version") /\ ~isinstance(default, "str")
    THEN IF default.t \in {"int", "float"}
         THEN PyStr(FloatStr(default))
         ELSE PyRaise("TypeError")
    ELSE default

\* lines 287-288 from field ff on
RECURSIVE Fill(_, _, _, _)
Fill(header, cells, entry, ff) ==
    IF ff > Len(header) THEN entry
    ELSE Fill(header, cells,
              SetItem(entry, lower(header[ff].s), cells[ff + 1]), ff + 1)

\* lines 285-288: the entry {field.lower(): line[ff + 1]}, or the exception
\* of a field that is no str or of a line that is too short
Entry(header, cells) ==
    IF \E ff \in 1..Len(header) : ff + 1 > Len(cells)
    THEN PyRaise("IndexError")
    ELSE IF \E ff \in 1..Len(header) : ~isinstance(header[ff], "str")
    THEN PyRaise("AttributeError")
    ELSE PyDict(Fill(header, cells, <<>>, 1))

\* one data line: [raise |-> FALSE] with the list `line` and the dict as the
\* iteration leaves them, or [raise |-> TRUE] when the line raises
Row(dict, header, line0) ==
    LET line1 == AddComment(line0)
        failed == [raise |-> TRUE, line |-> line0, convention |-> dict]
    IN  IF Len(line1) < 2 THEN failed                           \* line[1]
        ELSE
        LET default == Legacy(EmptyDefault(line1[2])) IN
        IF ~isinstance(line1[1], "str") THEN failed             \* "Version" in line[0], convention[line[0]]
        ELSE
        LET version == VersionDefault(line1[1].s, default)
            line2 == [line1 EXCEPT ![2] = version]
            entry == Entry(header, line2)
        IN  IF isinstance(version, "raise") \/ isinstance(entry, "raise")
            THEN failed
            ELSE [raise |-> FALSE, line |-> line2,
                  convention |-> SetItem(dict, line2[1].s, entry.l)]

-----------------------------------------------------------------------------
(* The document compiler: _convention_csv2dict *)

\* lines 209-258: the line split on tabs and every cell parsed; idc is the
\* value of the loop variable when the line is left or a cell raises
ParsedLine(values) ==
    IF \A i \in 1..Len(values) : ~isinstance(values[i], "raise")
    THEN [raise |-> FALSE, idc |-> Len(values) - 1, line |-> values]
    ELSE [raise |-> TRUE,
          idc |-> (CHOOSE i \in 1..Len(values) :
                      /\ isinstance(values[i], "raise")
                      /\ \A j \in 1..(i - 1) : ~isinstance(values[j], "raise")) - 1,
          line |-> values]

ParseCells(cells) == ParsedLine([i \in 1..Len(cells) |-> ParseCell(cells[i])])

ParseLine(text) == ParseCells(split(strip(text), "\t"))

\* lines 294-299: move everything to the end that is not GLOBAL
RECURSIVE MoveNotGlobal(_, _)
MoveNotGlobal(dict, keys) ==
    IF Len(keys) = 0 THEN dict
    ELSE MoveNotGlobal(
            IF ~contains(Head(keys), "GLOBAL")
            THEN MoveToEnd(dict, Head(keys))
            ELSE dict,
            Tail(keys))

\* lines 300-303: move Data entries to the end
RECURSIVE MoveData(_, _)
MoveData(dict, keys) ==
    IF Len(keys) = 0 THEN dict
    ELSE MoveData(
            IF startswith(Head(keys), "Data")
            THEN MoveToEnd(dict, Head(keys))
            ELSE dict,
            Tail(keys))

\* Reorder with the two passes in the other order
ReorderDataFirst(dict) ==
    LET keys == Keys(dict) IN
    MoveNotGlobal(MoveData(dict, keys), keys)

\* lines 294-303: both passes run over the keys as they were before
Reorder(dict) ==
    LET keys == Keys(dict) IN
    MoveData(MoveNotGlobal(dict, keys), keys)

\* ValueError that counts the lines from 1
ValueErrorOneBased(file, l, c) ==
    [raise |-> TRUE, file |-> file, idl |-> l + 1, idc |-> c, convention |-> <<>>]

\* line 291: the ValueError's text names line idl, entry idc and the file
ValueError(file, l, c) ==
    [raise |-> TRUE, file |-> file, idl |-> l, idc |-> c, convention |-> <<>>]

\* line 305
Return(dict) ==
    [raise |-> FALSE, file |-> "", idl |-> 0, idc |-> 0, convention |-> dict]

\* lines 205-292: the loop from line idl (0-based) on
RECURSIVE CompileFrom(_, _, _, _, _)
RECURSIVE CompileParsed(_, _, _, _, _, _)
RECURSIVE CompileRow(_, _, _, _, _, _)

CompileFrom(file, text, l, header, dict) ==
    IF l >= Len(text)
    THEN Return(Reorder(dict))
    ELSE CompileParsed(file, text, l, header, dict, ParseLine(text[l + 1]))

\* the iteration l once its cells are parsed
CompileParsed(file, text, l, header, dict, p) ==
    IF p.raise THEN ValueError(file, l, p.idc)
    ELSE IF l = 0 THEN CompileFrom(file, text, 1, Tail(p.line), dict)
    ELSE CompileRow(file, text, l, header, p.idc, Row(dict, header, p.line))

\* the iteration l once its row is compiled
CompileRow(file, text, l, header, c, r) ==
    IF r.raise THEN ValueError(file, l, c)
    ELSE CompileFrom(file, text, l + 1, header, r.convention)

\* _convention_csv2dict(file), text the lines read from the file
_convention_csv2dict(file, text) == CompileFrom(file, text, 0, <<>>, <<>>)

-----------------------------------------------------------------------------
(* Values of the variables a specification does not use *)

NoResult == [raise |-> FALSE, file |-> "", idl |-> 0, idc |-> 0, convention |-> <<>>]

IdleCell == cell = "" /\ parsed = PyNone

IdleDocument ==
    /\ lines = <<>> /\ idl = 0 /\ fields = <<>> /\ line = <<>>
    /\ convention = <<>> /\ result = NoResult

IdleBatch == csv_files = <<>> /\ json = <<>> /\ raised = NoResult

IdleSync ==
    /\ data = "" /\ requested = {} /\ opened_wb = {} /\ printed = <<>>
    /\ updated = ""

cellVars == <<cell, parsed>>
documentVars == <<lines, idl, fields, line, convention, result>>
batchVars == <<csv_files, json, raised>>
syncVars == <<data, requested, opened_wb, printed, updated>>

-----------------------------------------------------------------------------
(* SpecCell: the cell parser on one cell *)

\* largest number of elements of an array cell
MaxElements == 3

Literals == {"0", "12", "1.5", ".5"}

Separators == {" ", ",", ", ", "  ", " , "}

\* "[" e1 s1 e2 s2 ... en "]"
RECURSIVE Interleave(_, _)
Interleave(elements, seps) ==
    IF Len(elements) = 1 THEN elements[1]
    ELSE elements[1] \o seps[1] \o Interleave(Tail(elements), Tail(seps))

FlatArrays ==
    UNION {{"[" \o Interleave(e, s) \o "]" :
                e \in [1..n -> Literals], s \in [1..(n - 1) -> Separators]} :
           n \in 1..MaxElements}

OtherCells ==
    {"", "  ", "SOFA", " cartesian ", "1", "1.0", "1.2.3", "[1 2; 3 4]",
     "[1, 2; 3, 4]", "[1 2 ;3 4]", "[I C]", "[", "{''}"}

InitCell ==
    /\ pc = "cell"
    /\ cell \in FlatArrays \cup OtherCells
    /\ parsed = PyNone
    /\ IdleDocument /\ IdleBatch /\ IdleSync
    /\ source = <<>> /\ idx = 0

\* lines 211-258 for one cell
Cell ==
    /\ pc = "cell"
    /\ parsed' = ParseCell(cell)
    /\ pc' = IF isinstance(parsed', "raise") THEN "raise" ELSE "parsed"
    /\ UNCHANGED <<cell, source, idx>>
    /\ UNCHANGED <<documentVars, batchVars, syncVars>>

NextCell == Cell

SpecCell == InitCell /\ [][NextCell]_vars

-----------------------------------------------------------------------------
(* Claims about the cell parser (SpecCell) *)

\* the Python type a literal of an array is written in
LiteralType(literal) == IF contains(literal, ".") THEN "float" ELSE "int"

\* C4: a flat array cell "[a, b, c]", its elements separated by any run of
\* spaces and/or commas, parses to a list of as many numbers as it has
\* elements, each an int or a float as it is written.
C4_FlatArrayParsesToNumbers ==
    \A n \in 1..MaxElements :
        \A e \in [1..n -> Literals], s \in [1..(n - 1) -> Separators] :
            pc # "cell" /\ cell = "[" \o Interleave(e, s) \o "]" =>
                /\ pc = "parsed"
                /\ isinstance(parsed, "list")
                /\ Len(parsed.l) = n
                /\ \A i \in 1..n : isinstance(parsed.l[i], LiteralType(e[i]))

-----------------------------------------------------------------------------
(* Spec: _convention_csv2dict on one csv file, one loop iteration a step *)

\* largest number of data lines of a csv file
MaxRows == 2

File == "source/SimpleFreeFieldHRIR_1.0.csv"

\* the header of the upstream files
UpstreamHeader == "Name\tDefault\tFlags\tDimensions\tType\tComment\n"

Headers ==
    {UpstreamHeader, "Name\tFlags\tDefault\tDimensions\tType\tComment\n"}

BadHeader == "Name\tDefault\t[Flags]\tDimensions\tType\tComment\n"

Names == {"GLOBAL:Version", "GLOBAL:Title", "EmitterUp", "Data.IR", "Data.GLOBAL"}

\* the cells after the name: a full row, and a row with neither default
\* nor comment
Payloads ==
    {<<"SOFA", "rm", "", "attribute", "c">>,
     <<"", "m", "I", "double", "">>}

\* the cells after the name GLOBAL:Version: no flags; a number; nothing
\* but a number; one cell too many; too few cells; an array; an array
\* with ", " between its elements; a default that is rewritten
VersionPayloads ==
    {<<"SOFA", "", "", "attribute", "c">>,
     <<"1", "rm", "", "attribute", "">>,
     <<"1", "", "", "", "">>,
     <<"1.0", "rm", "", "attribute", "c", "x">>,
     <<"SOFA", "rm">>,
     <<"[0 0 1]", "m", "IC", "double", "c">>,
     <<"[0, 0, 1]", "m", "IC", "double", "c">>,
     <<"{''}", "m", "", "attribute", "c">>}

RowText(name, payload) == join(<<name>> \o payload, "\t") \o "\n"

Rows ==
    {RowText(name, payload) : name \in Names, payload \in Payloads}
    \cup {RowText("GLOBAL:Version", payload) : payload \in VersionPayloads}

RowSeqs(max) == UNION {[1..n -> Rows] : n \in 0..max}

Documents ==
    {<<>>}
    \cup {<<h>> \o rows : h \in Headers, rows \in RowSeqs(MaxRows)}
    \cup {<<BadHeader>> \o rows : rows \in RowSeqs(1)}

Init ==
    /\ pc = "loop"
    /\ lines \in Documents
    /\ idl = 0 /\ fields = <<>> /\ line = <<>> /\ convention = <<>>
    /\ result = NoResult
    /\ IdleCell /\ IdleBatch /\ IdleSync
    /\ source = <<>> /\ idx = 0

\* the iteration idl = 0: lines 205-263
Header(p) ==
    IF p.raise
    THEN /\ result' = ValueError(File, idl, p.idc)
         /\ pc' = "raise"
         /\ UNCHANGED <<idl, fields, line>>
    ELSE /\ fields' = Tail(p.line)
         /\ line' = p.line
         /\ idl' = 1
         /\ UNCHANGED <<pc, result>>

ReadHeader ==
    /\ pc = "loop" /\ idl = 0 /\ idl < Len(lines)
    /\ Header(ParseLine(lines[1]))
    /\ UNCHANGED <<lines, convention, source, idx>>
    /\ UNCHANGED <<cellVars, batchVars, syncVars>>

\* lines 290-292: the except clause
RaiseValueError(c) ==
    /\ result' = ValueError(File, idl, c)
    /\ pc' = "raise"
    /\ UNCHANGED <<idl, line, convention>>

\* lines 265-288 done
NextLine(r) ==
    /\ line' = r.line
    /\ convention' = r.convention
    /\ idl' = idl + 1
    /\ UNCHANGED <<pc, result>>

DataRow(c, r) == IF r.raise THEN RaiseValueError(c) ELSE NextLine(r)

DataLine(p) ==
    IF p.raise THEN RaiseValueError(p.idc)
    ELSE DataRow(p.idc, Row(convention, fields, p.line))

\* an iteration idl > 0: lines 205-292
CompileLine ==
    /\ pc = "loop" /\ idl > 0 /\ idl < Len(lines)
    /\ DataLine(ParseLine(lines[idl + 1]))
    /\ UNCHANGED <<lines, fields, source, idx>>
    /\ UNCHANGED <<cellVars, batchVars, syncVars>>

\* after the loop: lines 294-305
ReorderAndReturn ==
    /\ pc = "loop" /\ idl >= Len(lines)
    /\ result' = Return(Reorder(convention))
    /\ pc' = "return"
    /\ UNCHANGED <<lines, idl, fields, line, convention, source, idx>>
    /\ UNCHANGED <<cellVars, batchVars, syncVars>>

Next == ReadHeader \/ CompileLine \/ ReorderAndReturn

Spec == Init /\ [][Next]_vars

\* the loop of Spec computes what the function computes
LoopIsFunction ==
    pc \in {"return", "raise"} => result = _convention_csv2dict(File, lines)

-----------------------------------------------------------------------------
(* Claims about the compiled record (Spec) *)

Returned == result.convention

IsGlobal(key) == contains(key, "GLOBAL")

IsData(key) == startswith(key, "Data")

\* the cells of line k (1-based) of the file, as split on tabs
RawCells(k) == split(strip(lines[k]), "\t")

\* the header's field ff, lower-cased, "" when it is no str
FieldName(ff) == IF isinstance(fields[ff], "str") THEN lower(fields[ff].s) ELSE ""

\* the first field of the header, and no other, is named default
DefaultIsFirstField ==
    /\ Len(fields) > 0
    /\ FieldName(1) = "default"
    /\ \A ff \in 2..Len(fields) : FieldName(ff) # "default"

\* a data line has been compiled, and line is the list it left
LineCompiled == pc \in {"loop", "return"} /\ idl >= 2

\* C1 as stated: in a returned record every entry whose name contains
\* "GLOBAL" comes before every entry whose name does not, and within each
\* of the two groups the entries whose name starts with "Data" come after
\* the others.
C1_GlobalFirstThenData ==
    pc = "return" =>
        \A i, j \in 1..Len(Returned) :
            LET a == Returned[i].key
                b == Returned[j].key
            IN  /\ IsGlobal(a) /\ ~IsGlobal(b) => i < j
                /\ (IsGlobal(a) <=> IsGlobal(b)) /\ ~IsData(a) /\ IsData(b) => i < j

\* C1 amended: in a returned record every entry whose name starts with
\* "Data" comes after every entry whose name does not, and among the
\* entries whose name does not start with "Data" those whose name contains
\* "GLOBAL" come before those whose name does not.
C1_DataLastGlobalFirst ==
    pc = "return" =>
        \A i, j \in 1..Len(Returned) :
            LET a == Returned[i].key
                b == Returned[j].key
            IN  /\ ~IsData(a) /\ IsData(b) => i < j
                /\ ~IsData(a) /\ ~IsData(b) /\ IsGlobal(a) /\ ~IsGlobal(b) => i < j

\* a record of two entries that the two passes put in the other order
C1_Witness ==
    /\ pc = "return"
    /\ Len(Returned) = 2
    /\ Keys(Returned) # Keys(convention)
    /\ IsGlobal(Returned[1].key) /\ ~IsGlobal(Returned[2].key)

\* C2 as stated: in a returned record no entry's "default" is None,
\* whatever the header's fields and their order.
C2_DefaultNeverNone ==
    pc = "return" =>
        \A i \in 1..Len(Returned) :
            HasKey(Returned[i].value, "default")
                => Get(Returned[i].value, "default") # PyNone

\* C2 amended: when the header's first field, and no other, is named
\* default, no entry's "default" of a returned record is None.
C2_FirstFieldDefaultNeverNone ==
    pc = "return" /\ DefaultIsFirstField =>
        \A i \in 1..Len(Returned) :
            Get(Returned[i].value, "default") # PyNone

\* a line with an empty default cell, compiled to the default ""
C2_Witness ==
    /\ pc = "return" /\ DefaultIsFirstField
    /\ \E k \in 2..Len(lines) :
        /\ RawCells(k)[2] = ""
        /\ Get(Get(Returned, RawCells(k)[1]), "default") = PyStr("")

\* C3 as stated: in a returned record the "default" of every entry whose
\* name contains "Version" is a str.
C3_VersionDefaultIsStr ==
    pc = "return" =>
        \A i \in 1..Len(Returned) :
            contains(Returned[i].key, "Version")
                /\ HasKey(Returned[i].value, "default")
                => isinstance(Get(Returned[i].value, "default"), "str")

\* C3 amended: when the header's first field, and no other, is named
\* default, the "default" of every entry of a returned record whose name
\* contains "Version" is a str.
C3_FirstFieldVersionDefaultIsStr ==
    pc = "return" /\ DefaultIsFirstField =>
        \A i \in 1..Len(Returned) :
            contains(Returned[i].key, "Version")
                => isinstance(Get(Returned[i].value, "default"), "str")

\* a Version line with the default 1, compiled to the default "1.0"
C3_Witness ==
    /\ pc = "return" /\ DefaultIsFirstField
    /\ \E k \in 2..Len(lines) :
        /\ contains(RawCells(k)[1], "Version")
        /\ RawCells(k)[2] = "1"
        /\ Get(Get(Returned, RawCells(k)[1]), "default") = PyStr("1.0")

\* C5: the file of the upstream header and the line GLOBAL:Version, 1 and
\* four empty cells compiles, to the one entry GLOBAL:Version with the
\* default "1.0" and flags, dimensions, type and comment None.
C5_TrailingEmptyCellsCompile ==
    /\ lines = <<UpstreamHeader, "GLOBAL:Version\t1\t\t\t\t\n">>
    /\ pc # "loop"
    => /\ pc = "return"
       /\ Returned =
            <<[key |-> "GLOBAL:Version",
               value |-> <<[key |-> "default", value |-> PyStr("1.0")],
                           [key |-> "flags", value |-> PyNone],
                           [key |-> "dimensions", value |-> PyNone],
                           [key |-> "type", value |-> PyNone],
                           [key |-> "comment", value |-> PyNone]>>]>>

\* C9 as stated: a data line of the name and exactly 5 more cells gets a
\* further cell "" appended, a line of any other length gets nothing
\* appended.
C9_FiveCellsAfterName ==
    LineCompiled =>
        LET n == Len(RawCells(idl)) IN
        IF n - 1 = 5
        THEN Len(line) = n + 1 /\ line[n + 1] = PyStr("")
        ELSE Len(line) = n

\* C9 amended: a data line of exactly 5 cells in all, the name and 4 more,
\* gets a 6th cell "" appended, a line of any other length gets nothing
\* appended.
C9_FiveCellsInAll ==
    LineCompiled =>
        LET n == Len(RawCells(idl)) IN
        IF n = 5
        THEN Len(line) = 6 /\ line[6] = PyStr("")
        ELSE Len(line) = n

\* a line of 5 cells that was compiled, its comment ""
C9_Witness ==
    /\ pc = "return" /\ idl >= 2 /\ fields = Tail(ParseLine(UpstreamHeader).line)
    /\ Len(RawCells(idl)) = 5
    /\ Len(line) = 6
    /\ Get(Get(Returned, RawCells(idl)[1]), "comment") = PyStr("")

\* C10: a data line is compiled only if it has one cell for the name and
\* one for every field of the header, or lacks only the last of them.
C10_CellCountMatches ==
    LineCompiled =>
        \/ Len(RawCells(idl)) = Len(fields) + 1
        \/ Len(RawCells(idl)) = Len(fields)

-----------------------------------------------------------------------------
(* SpecBatch: _compile_conventions over the csv files of the source folder, *)
(* from the glob on (the source folder exists), one file a step            *)

\* number of csv files in the source folder
MaxFiles == 3

CsvName(i) == "Convention" \o IntStr(i) \o "_1.0.csv"

CsvNames == {CsvName(i) : i \in 1..MaxFiles}

\* line 164: os.path.join(conventions_path, "source", csv_file)
SourcePath(csv_file) == "source/" \o csv_file

\* lines 162-163: the json file of a csv file, csv_file[:-3] + "json"
JsonPath(csv_file) == "json/" \o SubSeq(csv_file, 1, Len(csv_file) - 3) \o "json"

\* two files that compile, and files that fail at line 0, 1 and 2
BatchDocuments ==
    {<<UpstreamHeader,
       RowText("Data.IR", <<"[0 0 1]", "m", "IC", "double", "c">>),
       RowText("GLOBAL:Version", <<"1", "rm", "", "attribute", "">>)>>,
     <<UpstreamHeader,
       RowText("GLOBAL:Title", <<"", "m", "", "attribute", "c">>)>>,
     <<BadHeader,
       RowText("GLOBAL:Title", <<"", "m", "", "attribute", "c">>)>>,
     <<UpstreamHeader,
       RowText("GLOBAL:Title", <<"SOFA", "rm">>)>>,
     <<UpstreamHeader,
       RowText("GLOBAL:Title", <<"", "m", "", "attribute", "c">>),
       RowText("Data.IR", <<"[0, 0, 1]", "m", "IC", "double", "c">>)>>}

\* the value of a file that does not exist
NoFile == [exists |-> FALSE, content |-> <<>>]

\* lines 168-169: the dict dumped to the json file
JsonFile(dict) == [exists |-> TRUE, content |-> dict]

\* the sequences that hold every element of S once
Orders(S) ==
    {order \in [1..Cardinality(S) -> S] :
        \A i, j \in 1..Cardinality(S) : order[i] = order[j] => i = j}

InitBatch ==
    /\ pc = "loop"
    /\ source \in [CsvNames -> BatchDocuments]
    /\ csv_files \in Orders(CsvNames)
    /\ json = [path \in {JsonPath(f) : f \in CsvNames} |-> NoFile]
    /\ raised = NoResult
    /\ idx = 0
    /\ IdleCell /\ IdleDocument /\ IdleSync

\* json.dump that writes nothing
JsonDumpNothing(store, path, dict) == store

\* lines 168-169
JsonDump(store, path, dict) == [store EXCEPT ![path] = JsonFile(dict)]

\* lines 167-169 once _convention_csv2dict has returned or raised
Compiled(csv_file, r) ==
    IF r.raise
    THEN /\ raised' = r
         /\ pc' = "raise"
         /\ UNCHANGED <<json, idx>>
    ELSE /\ json' = JsonDump(json, JsonPath(csv_file), r.convention)
         /\ idx' = idx + 1
         /\ UNCHANGED <<raised, pc>>

\* one iteration of the loop, lines 159-169
CompileFile ==
    /\ pc = "loop" /\ idx < Len(csv_files)
    /\ Compiled(csv_files[idx + 1],
                _convention_csv2dict(SourcePath(csv_files[idx + 1]),
                                     source[csv_files[idx + 1]]))
    /\ UNCHANGED <<source, csv_files>>
    /\ UNCHANGED <<cellVars, documentVars, syncVars>>

\* the loop is over
CompileDone ==
    /\ pc = "loop" /\ idx = Len(csv_files)
    /\ pc' = "done"
    /\ UNCHANGED <<source, csv_files, json, raised, idx>>
    /\ UNCHANGED <<cellVars, documentVars, syncVars>>

NextBatch == CompileFile \/ CompileDone

SpecBatch == InitBatch /\ [][NextBatch]_vars

-----------------------------------------------------------------------------
(* Claims about failures (SpecBatch) *)

\* compiling line l (0-based) of the text raises
LineRaises(text, l) ==
    \/ ParseLine(text[l + 1]).raise
    \/ /\ l > 0
       /\ Row(<<>>, Tail(ParseLine(text[1]).line), ParseLine(text[l + 1]).line).raise

\* the text has a line that raises
SomeLineRaises(text) == \E l \in 0..(Len(text) - 1) : LineRaises(text, l)

\* the k-th file in the order of processing
Processed(k) == csv_files[k]

\* C6: when a line of a file fails to compile, one ValueError leaves
\* _convention_csv2dict that names the file and the 0-based index of the
\* first line that fails, and no json file is written for the file; a file
\* whose json file is written has no line that fails.
C6_FailureNamesFileAndLine ==
    /\ pc = "raise" =>
        LET f == Processed(idx + 1) IN
        /\ raised.raise
        /\ raised.file = SourcePath(f)
        /\ raised.idl \in 0..(Len(source[f]) - 1)
        /\ LineRaises(source[f], raised.idl)
        /\ \A l \in 0..(raised.idl - 1) : ~LineRaises(source[f], l)
        /\ json[JsonPath(f)] = NoFile
    /\ \A k \in 1..idx : ~SomeLineRaises(source[Processed(k)])
    /\ pc = "done" => ~raised.raise

\* a file compiled, then a file that fails at its line 2
C6_Witness ==
    /\ pc = "raise" /\ idx = 1
    /\ raised.idl = 2
    /\ json[JsonPath(Processed(1))] # NoFile

-----------------------------------------------------------------------------
(* SpecSync: update_conventions from the loop over the upstream file names *)
(* on (the update is confirmed, the page is read, the folders exist), one  *)
(* iteration a step                                                        *)

\* largest number of bytes of a downloaded or cached file
MaxBytes == 2

\* lines 75-77: the csv files the upstream page lists
Conventions ==
    <<"General_1.0.csv", "GeneralFIR_1.0.csv", "GeneralString_1.0.csv",
      "SimpleFreeFieldHRIR_1.0.csv">>

Byte == {"a", "\t", "\r", "\n"}

RECURSIVE BytesOfLength(_)
BytesOfLength(n) ==
    IF n = 0 THEN {""}
    ELSE {b \o c : b \in BytesOfLength(n - 1), c \in Byte}

AllBytes == UNION {BytesOfLength(n) : n \in 0..MaxBytes}

\* what a file can hold, upstream or in the source folder: every text up
\* to MaxBytes bytes for SimpleFreeFieldHRIR, two texts for the other files
Varied == "SimpleFreeFieldHRIR_1.0.csv"

Contents(name) ==
    IF name = Varied
    THEN AllBytes
    ELSE {"a\n", "a\r\n"}

\* a file of the source folder
Cached(bytes) == [exists |-> TRUE, content |-> bytes]

Missing == [exists |-> FALSE, content |-> ""]

\* what the source folder can hold under a name
Files(name) == {Missing} \cup {Cached(b) : b \in Contents(name)}

\* line 92
Excluded(name) ==
    startswith(name, "General_") \/ startswith(name, "GeneralString_")

\* line 100: remove trailing tabs, then the carriage returns
Downloaded(content) == replace(replace(content, "\t\n", "\n"), "\r\n", "\n")

\* the cached file compared as it is
CurrentDataRaw(bytes) == bytes

\* lines 108-110: the cached file without its carriage returns
CurrentData(bytes) == replace(bytes, "\r\n", "\n")

ConventionNames == {Conventions[i] : i \in 1..Len(Conventions)}

InitSync ==
    /\ pc = "loop"
    /\ idx = 0
    /\ source \in {[c \in ConventionNames |-> IF c = Varied THEN f ELSE g[c]] :
                      f \in Files(Varied),
                      g \in [ConventionNames \ {Varied} -> Files("GeneralFIR_1.0.csv")]}
    /\ data = "" /\ requested = {} /\ opened_wb = {} /\ printed = <<>>
    /\ updated = ""
    /\ IdleCell /\ IdleDocument /\ IdleBatch

\* lines 92-93: an excluded name
Skip ==
    /\ pc = "loop" /\ idx < Len(Conventions)
    /\ Excluded(Conventions[idx + 1])
    /\ idx' = idx + 1
    /\ UNCHANGED <<pc, source, data, requested, opened_wb, printed, updated>>
    /\ UNCHANGED <<cellVars, documentVars, batchVars>>

\* lines 115-119
Write(name, message) ==
    /\ source' = [source EXCEPT ![name] = Cached(data')]
    /\ opened_wb' = opened_wb \cup {name}
    /\ updated' = message
    /\ printed' = Append(printed, message)

\* lines 102-119
Update(name) ==
    IF ~source[name].exists
    THEN Write(name, "- added new convention: " \o name)
    ELSE IF CurrentData(source[name].content) # data'
    THEN Write(name, "- updated existing convention: " \o name)
    ELSE UNCHANGED <<source, opened_wb, updated, printed>>

\* lines 95-119: a name that is not excluded, content what upstream serves
Download ==
    /\ pc = "loop" /\ idx < Len(Conventions)
    /\ ~Excluded(Conventions[idx + 1])
    /\ \E content \in Contents(Conventions[idx + 1]) :
        /\ data' = Downloaded(content)
        /\ requested' = requested \cup {Conventions[idx + 1]}
        /\ Update(Conventions[idx + 1])
    /\ idx' = idx + 1
    /\ UNCHANGED pc
    /\ UNCHANGED <<cellVars, documentVars, batchVars>>

\* lines 124-129: _compile_conventions returns (SpecBatch), the last print
Report ==
    /\ pc = "loop" /\ idx = Len(Conventions)
    /\ printed' = Append(printed, IF updated # "" THEN "... done."
                                  ELSE "... conventions already up to date.")
    /\ pc' = "done"
    /\ UNCHANGED <<idx, source, data, requested, opened_wb, updated>>
    /\ UNCHANGED <<cellVars, documentVars, batchVars>>

\* line 124: _compile_conventions raises (SpecBatch)
CompileRaises ==
    /\ pc = "loop" /\ idx = Len(Conventions)
    /\ pc' = "raise"
    /\ UNCHANGED <<idx, source, data, requested, opened_wb, printed, updated>>
    /\ UNCHANGED <<cellVars, documentVars, batchVars>>

NextSync == Skip \/ Download \/ Report \/ CompileRaises

SpecSync == InitSync /\ [][NextSync]_vars

-----------------------------------------------------------------------------
(* Claims about the download loop (SpecSync) *)

\* the iteration of the step wrote the file and printed one message
Overwritten(name) ==
    /\ name \in opened_wb'
    /\ source'[name] = Cached(data')
    /\ Len(printed') = Len(printed) + 1
    /\ \/ printed'[Len(printed')] = "- added new convention: " \o name
       \/ printed'[Len(printed')] = "- updated existing convention: " \o name

\* the iteration of the step left the files and the output alone
LeftAlone(name) ==
    /\ name \notin opened_wb'
    /\ source' = source
    /\ printed' = printed

\* an iteration of the loop ends
Iteration == pc = "loop" /\ idx' = idx + 1

\* C8 as stated: a file that is not excluded is overwritten and reported
\* if and only if it is missing or its cached bytes differ from the
\* normalised download, and is left alone otherwise; an excluded file is
\* neither requested nor written.
C8_OverwrittenIffBytesDiffer ==
    [][Iteration =>
        LET c == Conventions[idx + 1] IN
        IF Excluded(c)
        THEN c \notin requested' /\ LeftAlone(c)
        ELSE IF ~source[c].exists \/ source[c].content # data'
        THEN Overwritten(c)
        ELSE LeftAlone(c)]_vars

\* C8 amended: a file that is not excluded is overwritten and reported if
\* and only if it is missing or its cached bytes, with every "\r\n"
\* replaced by "\n", differ from the normalised download, and is left
\* alone otherwise; an excluded file is neither requested nor written.
C8_OverwrittenIffNormalisedBytesDiffer ==
    [][Iteration =>
        LET c == Conventions[idx + 1] IN
        IF Excluded(c)
        THEN c \notin requested' /\ LeftAlone(c)
        ELSE IF ~source[c].exists \/ replace(source[c].content, "\r\n", "\n") # data'
        THEN Overwritten(c)
        ELSE LeftAlone(c)]_vars

\* the loop is over: one file was overwritten, one was requested and left
\* alone, the excluded ones were not requested
C8_Witness ==
    /\ pc = "done"
    /\ opened_wb = {"SimpleFreeFieldHRIR_1.0.csv"}
    /\ requested = {"GeneralFIR_1.0.csv", "SimpleFreeFieldHRIR_1.0.csv"}
    /\ source["SimpleFreeFieldHRIR_1.0.csv"] = Cached(data)
    /\ source["GeneralFIR_1.0.csv"] = Cached("a\r\n")

====
